---- MODULE Spec2Model ----
(***************************************************************************)
(* Model of the ESP32 SPI-emulated clockless LED controller                *)
(* (src/platforms/esp/32/clockless_esp32.h, class ClocklessController).    *)
(*                                                                         *)
(* The controller owns a bus handle (hspi) and a heap buffer (led_data)    *)
(* of recorded size mSize.  showPixels is modelled as the sequence of its  *)
(* program points: the prologue (size computation and resize), one step    *)
(* per iteration of the encode loop, and the three bus calls.  The caller  *)
(* is single threaded, so no other operation of the controller runs while  *)
(* a showPixels call is in progress.                                       *)
(*                                                                         *)
(* Undefined behaviour (a store through a null led_data after a failed     *)
(* malloc, a call through a null hspi) is a choice between a trap          *)
(* (pc = "crashed") and continuing with the access dropped (ub = TRUE).    *)
(***************************************************************************)
EXTENDS Integers, Sequences, FiniteSets, TLC

(* ---------------------------- bounds ----------------------------------- *)
MaxPixels == 2        \* largest pixels.size() a cycle is driven with
NumAddrs == 2         \* distinct addresses malloc can return
MaxInits == 2         \* calls of init() explored

(* ------------------------ program constants ---------------------------- *)
mOne == 248           \* 0xf8
mZero == 128          \* 0x80
RESET_LENGTH == 10
SizeofRmtData == 4    \* sizeof(rmt_data_t): a 32-bit pulse specification
SpiClock == 6400000
MaxRefreshRate == 400

NULL == 0
Uninit == -1          \* content of a byte malloc returned and nobody wrote
Addrs == 1..NumAddrs
PixelCounts == 0..MaxPixels
\* scaled pixels the source yields: (0xFF,0x00,0x81) and (0x16,0xE9,0x40)
ScaledPixels == {<<255, 0, 129>>, <<22, 233, 64>>}
\* strips of at most one pixel whose channels each take every value 0..255
EncodeCounts == {0, 1}
AllBytePixels == {<<b, 255 - b, (b * 7) % 256>> : b \in 0..255}
Masks == <<128, 64, 32, 16, 8, 4, 2, 1>>
Settings == [clock |-> SpiClock, bitOrder |-> "MSBFIRST", mode |-> 0]

VARIABLES
  pc,          \* "idle", "encode", "begun", "written", "crashed", "destroyed"
  hspi,        \* SPIClass *hspi
  spiObjects,  \* SPIClass objects created by new and never deleted
  led_data,    \* uint8_t *led_data
  mSize,       \* int mSize
  heap,        \* heap[a] = bytes of the live block at a, 0 when not live
  heapError,   \* free() was called on a block that is not live
  mem,         \* bytes of the block led_data points to, index 0..
  pxSize,      \* pixels.size() of the cycle in progress / last cycle
  pxRemaining, \* pixels the source still yields (has(1) <=> >= 1)
  loaded,      \* scaled bytes returned by loadAndScale0/1/2 this cycle
  cur,         \* int cur
  nFree,       \* calls of free() in the cycle
  nMalloc,     \* calls of malloc() in the cycle
  mallocReq,   \* bytes requested by the last malloc() of the cycle
  allocFailed, \* malloc() returned nullptr in the cycle
  busLog,      \* bus calls of the cycle, in order
  txOpen,      \* a transaction is open on the bus
  txLen,       \* length passed to the last writeBytes
  ub,          \* undefined behaviour has been executed
  pxCalls,     \* calls made on the pixel source this cycle, in order
  stored,      \* buffer indices stored by the encode loop this cycle
  rate         \* value returned by the last getMaxRefreshRate(), 0 before

vars == <<pc, hspi, spiObjects, led_data, mSize, heap, heapError, mem,
          pxSize, pxRemaining, loaded, cur, nFree,
          nMalloc, mallocReq, allocFailed, busLog, txOpen, txLen, ub,
          pxCalls, stored, rate>>

cycleVars == <<pxSize, pxRemaining, loaded, cur, nFree,
               nMalloc, mallocReq, allocFailed, busLog, txLen, pxCalls, stored>>
bufVars == <<led_data, mSize, heap, heapError, mem>>
spiVars == <<hspi, spiObjects>>

(* --------------------------- pure helpers ------------------------------ *)
\* byte & mask, for a single-bit mask
BitAnd(byte, mask) == IF (byte \div mask) % 2 = 1 THEN mask ELSE 0

\* byte & mask ? mOne : mZero
Symbol(byte, mask) == IF BitAnd(byte, mask) # 0 THEN mOne ELSE mZero

\* variant: the eight masks applied from 0x01 up to 0x80
EncodeByteLsbFirst(byte) == [k \in 1..8 |-> Symbol(byte, Masks[9 - k])]

\* the eight stores of one scaled byte, in program order
EncodeByte(byte) == [k \in 1..8 |-> Symbol(byte, Masks[k])]

\* variant: channels 0 and 1 stored in the opposite order
EncodePixelBytesSwapped(px) == EncodeByte(px[2]) \o EncodeByte(px[1]) \o EncodeByte(px[3])

\* the 24 stores of one loop iteration
EncodePixelBytes(px) == EncodeByte(px[1]) \o EncodeByte(px[2]) \o EncodeByte(px[3])

\* int size_needed = pixels.size() * 3 * 8 + RESET_LENGTH
SizeNeeded(n) == n * 3 * 8 + RESET_LENGTH

\* variant: the buffer is replaced only when it has to grow
NeedsResizeGrowOnly(need, size) == need > size

\* if (size_needed != mSize)
NeedsResize(need, size) == need # size

\* malloc(mSize * sizeof(rmt_data_t))
MallocBytes(size) == size * SizeofRmtData

\* a block fresh from malloc
FreshBlock(bytes) == [i \in 0..(bytes - 1) |-> Uninit]

\* variant: the loop starts one slot late
ZeroTailLate(m, need) ==
  [i \in DOMAIN m |-> IF i > need - RESET_LENGTH /\ i < need THEN 0 ELSE m[i]]

\* for (i = size_needed-RESET_LENGTH; i < size_needed; ++i) led_data[i] = 0
ZeroTail(m, need) ==
  [i \in DOMAIN m |-> IF i >= need - RESET_LENGTH /\ i < need THEN 0 ELSE m[i]]

\* variant: the old block is never handed back
FreeOldSkipped(h, p) == h

\* if (led_data != nullptr) free(led_data)
FreeOld(h, p) == IF p # NULL THEN [h EXCEPT ![p] = 0] ELSE h

\* free() of a block that is not live
BadFree(h, p) == p # NULL /\ h[p] = 0

\* variant: led_data[++cur], every store one slot late
StorePixelPreIncrement(m, c, px) ==
  LET enc == EncodePixelBytes(px) IN
    [i \in DOMAIN m |-> IF i > c /\ i <= c + 24 THEN enc[i - c] ELSE m[i]]

\* variant: the last store of the iteration is missing
StorePixelShort(m, c, px) ==
  LET enc == EncodePixelBytes(px) IN
    [i \in DOMAIN m |-> IF i >= c /\ i < c + 23 THEN enc[i - c + 1] ELSE m[i]]

\* led_data[cur++] = ... , 24 times
StorePixel(m, c, px) ==
  LET enc == EncodePixelBytes(px) IN
    [i \in DOMAIN m |-> IF i >= c /\ i < c + 24 THEN enc[i - c + 1] ELSE m[i]]

\* the slots led_data[cur++] touches in one loop iteration starting at c
StoredSlots(c) == c..(c + 23)

\* variant: the pixel source is advanced before its bytes are loaded
PixelCallsAdvanceFirst ==
  <<"has", "advanceData", "loadAndScale0", "loadAndScale1", "loadAndScale2",
    "stepDithering">>

\* the calls on the pixel source in one loop iteration, in program order
PixelCalls ==
  <<"has", "loadAndScale0", "loadAndScale1", "loadAndScale2", "advanceData",
    "stepDithering">>

\* the length argument of hspi->writeBytes(led_data, cur)
WriteLen(c) == c

\* variant: the ceiling shrinks with the strip length
getMaxRefreshRateByLength == IF mSize > 34 THEN 200 ELSE 400

\* getMaxRefreshRate()
getMaxRefreshRate == MaxRefreshRate

(* ------------------------------ Init ----------------------------------- *)
Init ==
  /\ pc = "idle"
  /\ hspi = NULL
  /\ spiObjects = {}
  /\ led_data = NULL
  /\ mSize = 0
  /\ heap = [a \in Addrs |-> 0]
  /\ heapError = FALSE
  /\ mem = <<>>
  /\ pxSize = 0
  /\ pxRemaining = 0
  /\ loaded = <<>>
  /\ cur = 0
  /\ nFree = 0
  /\ nMalloc = 0
  /\ mallocReq = 0
  /\ allocFailed = FALSE
  /\ busLog = <<>>
  /\ txOpen = FALSE
  /\ txLen = 0
  /\ ub = FALSE
  /\ pxCalls = <<>>
  /\ stored = {}
  /\ rate = 0

(* ----------------------------- init() ---------------------------------- *)
\* variant: the previous SPIClass object is deleted before the new one is made
initReleasing ==
  /\ pc = "idle"
  /\ Cardinality(spiObjects) < MaxInits
  /\ LET h == IF hspi = 1 THEN 2 ELSE 1 IN
       /\ hspi' = h
       /\ spiObjects' = {h}
  /\ UNCHANGED <<pc, txOpen, ub, rate>>
  /\ UNCHANGED bufVars
  /\ UNCHANGED cycleVars

\* hspi = new SPIClass(HSPI); hspi->begin();
init ==
  /\ pc = "idle"
  /\ Cardinality(spiObjects) < MaxInits
  /\ LET h == Cardinality(spiObjects) + 1 IN
       /\ hspi' = h
       /\ spiObjects' = spiObjects \cup {h}
  /\ UNCHANGED <<pc, txOpen, ub, rate>>
  /\ UNCHANGED bufVars
  /\ UNCHANGED cycleVars

(* --------------------------- showPixels -------------------------------- *)
\* entry of showPixels: the pixel source is bound, locals are fresh
Prologue(n, r) ==
  /\ pc = "idle"
  /\ pxSize' = n
  /\ pxRemaining' = r
  /\ loaded' = <<>>
  /\ cur' = 0
  /\ busLog' = <<>>
  /\ pxCalls' = <<>>
  /\ stored' = {}
  /\ UNCHANGED <<txLen, txOpen, rate>>
  /\ UNCHANGED spiVars

\* size_needed == mSize: the buffer is kept
KeepBuffer(n) ==
  /\ ~NeedsResize(SizeNeeded(n), mSize)
  /\ nFree' = 0
  /\ nMalloc' = 0
  /\ mallocReq' = 0
  /\ allocFailed' = FALSE
  /\ pc' = "encode"
  /\ UNCHANGED bufVars
  /\ UNCHANGED ub

\* size_needed != mSize and malloc succeeds
ResizeBuffer(n) ==
  /\ NeedsResize(SizeNeeded(n), mSize)
  /\ LET need == SizeNeeded(n)
         h1 == FreeOld(heap, led_data)
     IN
       /\ heapError' = (heapError \/ BadFree(heap, led_data))
       /\ nFree' = IF led_data # NULL THEN 1 ELSE 0
       /\ mSize' = need
       /\ nMalloc' = 1
       /\ mallocReq' = MallocBytes(need)
       /\ allocFailed' = FALSE
       /\ \E a \in Addrs :
            /\ h1[a] = 0
            /\ led_data' = a
            /\ heap' = [h1 EXCEPT ![a] = MallocBytes(need)]
       /\ mem' = ZeroTail(FreshBlock(MallocBytes(need)), need)
  /\ pc' = "encode"
  /\ UNCHANGED ub

\* size_needed != mSize and malloc returns nullptr: the tail loop stores
\* through the null pointer
ResizeFails(n) ==
  /\ NeedsResize(SizeNeeded(n), mSize)
  /\ LET need == SizeNeeded(n) IN
       /\ heapError' = (heapError \/ BadFree(heap, led_data))
       /\ nFree' = IF led_data # NULL THEN 1 ELSE 0
       /\ heap' = FreeOld(heap, led_data)
       /\ mSize' = need
       /\ nMalloc' = 1
       /\ mallocReq' = MallocBytes(need)
       /\ allocFailed' = TRUE
       /\ led_data' = NULL
       /\ mem' = <<>>
  /\ ub' = TRUE
  /\ pc' \in {"crashed", "encode"}

ShowPixels(n, r) ==
  /\ Prologue(n, r)
  /\ \/ KeepBuffer(n)
     \/ ResizeBuffer(n)
     \/ ResizeFails(n)

\* one iteration of while (pixels.has(1)) { ... }, the pixel drawn from P
EncodePixel(P) ==
  /\ pc = "encode"
  /\ pxRemaining >= 1
  /\ \E px \in P :
         /\ loaded' = Append(loaded, px)
         /\ IF led_data # NULL /\ cur + 24 <= MallocBytes(mSize)
              THEN /\ mem' = StorePixel(mem, cur, px)
                   /\ UNCHANGED <<pc, ub>>
              ELSE \* stores through nullptr or past the end of the block
                   /\ mem' = IF led_data # NULL THEN StorePixel(mem, cur, px) ELSE mem
                   /\ ub' = TRUE
                   /\ pc' \in {"crashed", "encode"}
  /\ stored' = stored \cup (StoredSlots(cur) \cap DOMAIN mem)
  /\ pxCalls' = pxCalls \o PixelCalls
  /\ UNCHANGED rate
  /\ cur' = cur + 24
  /\ pxRemaining' = pxRemaining - 1
  /\ UNCHANGED <<led_data, mSize, heap, heapError, txOpen>>
  /\ UNCHANGED <<pxSize, nFree, nMalloc, mallocReq,
                 allocFailed, busLog, txLen>>
  /\ UNCHANGED spiVars

\* variant: the transaction is begun without waiting for the loop to exit
BeginTransactionEarly ==
  /\ pc = "encode"
  /\ busLog' = Append(busLog, [op |-> "beginTransaction", arg |-> Settings])
  /\ pxCalls' = Append(pxCalls, "has")
  /\ txOpen' = TRUE
  /\ pc' = "begun"
  /\ UNCHANGED ub
  /\ UNCHANGED bufVars
  /\ UNCHANGED spiVars
  /\ UNCHANGED <<pxSize, pxRemaining, loaded, cur, nFree,
                 nMalloc, mallocReq, allocFailed, txLen>>
  /\ UNCHANGED <<stored, rate>>

\* loop exit, then hspi->beginTransaction(settings)
BeginTransaction ==
  /\ pc = "encode"
  /\ pxRemaining < 1
  /\ busLog' = Append(busLog, [op |-> "beginTransaction", arg |-> Settings])
  /\ pxCalls' = Append(pxCalls, "has")
  /\ txOpen' = TRUE
  /\ IF hspi # NULL
       THEN pc' = "begun" /\ UNCHANGED ub
       ELSE ub' = TRUE /\ pc' \in {"crashed", "begun"}
  /\ UNCHANGED bufVars
  /\ UNCHANGED spiVars
  /\ UNCHANGED <<pxSize, pxRemaining, loaded, cur, nFree,
                 nMalloc, mallocReq, allocFailed, txLen>>
  /\ UNCHANGED <<stored, rate>>

\* hspi->writeBytes(led_data, cur)
WriteBytes ==
  /\ pc = "begun"
  /\ busLog' = Append(busLog, [op |-> "writeBytes", arg |-> WriteLen(cur)])
  /\ txLen' = WriteLen(cur)
  /\ IF hspi # NULL /\ (led_data # NULL \/ WriteLen(cur) = 0)
       THEN pc' = "written" /\ UNCHANGED ub
       ELSE ub' = TRUE /\ pc' \in {"crashed", "written"}
  /\ UNCHANGED bufVars
  /\ UNCHANGED spiVars
  /\ UNCHANGED <<pxSize, pxRemaining, loaded, cur, nFree,
                 nMalloc, mallocReq, allocFailed, txOpen>>
  /\ UNCHANGED <<pxCalls, stored, rate>>

\* variant: showPixels returns without ending the transaction
EndTransactionSkipped ==
  /\ pc = "written"
  /\ pc' = "idle"
  /\ busLog' = Append(busLog, [op |-> "endTransaction", arg |-> 0])
  /\ UNCHANGED <<txOpen, ub>>
  /\ UNCHANGED bufVars
  /\ UNCHANGED spiVars
  /\ UNCHANGED <<pxSize, pxRemaining, loaded, cur, nFree,
                 nMalloc, mallocReq, allocFailed, txLen>>
  /\ UNCHANGED <<pxCalls, stored, rate>>

\* hspi->endTransaction(), return
EndTransaction ==
  /\ pc = "written"
  /\ busLog' = Append(busLog, [op |-> "endTransaction", arg |-> 0])
  /\ txOpen' = FALSE
  /\ IF hspi # NULL
       THEN pc' = "idle" /\ UNCHANGED ub
       ELSE ub' = TRUE /\ pc' \in {"crashed", "idle"}
  /\ UNCHANGED bufVars
  /\ UNCHANGED spiVars
  /\ UNCHANGED <<pxSize, pxRemaining, loaded, cur, nFree,
                 nMalloc, mallocReq, allocFailed, txLen>>
  /\ UNCHANGED <<pxCalls, stored, rate>>

(* ----------------------- getMaxRefreshRate() --------------------------- *)
\* return 400; a const member, called by the framework between frames
GetMaxRefreshRate ==
  /\ pc = "idle"
  /\ rate' = getMaxRefreshRate
  /\ UNCHANGED <<pc, txOpen, ub>>
  /\ UNCHANGED bufVars
  /\ UNCHANGED spiVars
  /\ UNCHANGED cycleVars

(* ---------------------------- teardown --------------------------------- *)
\* the class declares no destructor: destroying the instance drops the
\* members hspi, led_data and mSize and calls neither free nor delete
Destroy ==
  /\ pc = "idle"
  /\ pc' = "destroyed"
  /\ led_data' = NULL
  /\ mSize' = 0
  /\ hspi' = NULL
  /\ mem' = <<>>
  /\ UNCHANGED <<heap, heapError, spiObjects, txOpen, ub, rate>>
  /\ UNCHANGED cycleVars

(* ------------------------- specifications ------------------------------ *)
Next ==
  \/ init
  \/ \E n \in PixelCounts : ShowPixels(n, n)
  \/ EncodePixel(ScaledPixels)
  \/ BeginTransaction
  \/ WriteBytes
  \/ EndTransaction
  \/ GetMaxRefreshRate
  \/ Destroy

Spec == Init /\ [][Next]_vars

\* the same controller driven with every byte value 0..255
NextEncode ==
  \/ init
  \/ \E n \in EncodeCounts : ShowPixels(n, n)
  \/ EncodePixel(AllBytePixels)
  \/ BeginTransaction
  \/ WriteBytes
  \/ EndTransaction
  \/ Destroy

SpecEncode == Init /\ [][NextEncode]_vars

\* pixel sources whose has(1) holds for r iterations although size() is n
MismatchedSources == {<<n, r>> \in PixelCounts \X PixelCounts : r # n}

\* the same controller driven by sources that do and do not keep size()
NextMismatch ==
  \/ init
  \/ \E n \in PixelCounts : ShowPixels(n, n)
  \/ \E src \in MismatchedSources : ShowPixels(src[1], src[2])
  \/ EncodePixel(ScaledPixels)
  \/ BeginTransaction
  \/ WriteBytes
  \/ EndTransaction
  \/ Destroy

SpecMismatch == Init /\ [][NextMismatch]_vars

(* --------------------------- properties -------------------------------- *)
Live == {a \in Addrs : heap[a] # 0}
Running == pc \in {"encode", "begun", "written"}
Returned == pc = "idle" /\ busLog # <<>>
\* the step that enters showPixels
Entering == pc = "idle" /\ pc' \in {"encode", "crashed"}
TailIsZero(m, size) == \A i \in (size - RESET_LENGTH)..(size - 1) : m[i] = 0
BitOf(byte, k) == (byte \div (2 ^ k)) % 2
BusOps == [i \in DOMAIN busLog |-> busLog[i].op]

\* C1: every scaled byte the loop has loaded occupies 8 consecutive slots,
\* most significant bit first; slot k holds 0xF8 iff bit 7-k of the byte is
\* 1 and 0x80 otherwise, and cur has advanced by 8 per byte.
EncodeMsbFirst ==
  (led_data # NULL /\ pc # "destroyed") =>
     /\ cur = 8 * 3 * Len(loaded)
     /\ \A p \in 1..Len(loaded) : \A c \in 0..2 : \A k \in 0..7 :
          mem[(p - 1) * 24 + c * 8 + k] =
             IF BitOf(loaded[p][c + 1], 7 - k) = 1 THEN 248 ELSE 128

EncodeMsbFirstWitness ==
  /\ pc = "encode"
  /\ led_data # NULL
  /\ loaded = << <<165, 90, 131>> >>
  /\ mem[0] = 248 /\ mem[1] = 128 /\ mem[7] = 248
  /\ cur = 24

\* C2: after a cycle with n pixels has returned on an allocated buffer,
\* mSize = n*24 + 10 and the last 10 bytes of the buffer are zero.
SizeAndTailAfterCycle ==
  (Returned /\ led_data # NULL) =>
     /\ mSize = pxSize * 24 + 10
     /\ TailIsZero(mem, pxSize * 24 + 10)

SizeAndTailAfterCycleWitness ==
  /\ Returned
  /\ led_data # NULL
  /\ ~ub
  /\ pxSize = 1
  /\ nFree = 1
  /\ mSize = 34
  /\ mem[23] \in {mOne, mZero}
  /\ mem[24] = 0 /\ mem[33] = 0

\* C3: in a cycle free of undefined behaviour the length passed to
\* writeBytes is n*24 + resetLength, the encoded bytes plus the reset tail.
WriteCoversResetTail ==
  (pc = "written" /\ ~ub) => txLen = pxSize * 24 + RESET_LENGTH

\* C4: a cycle calls malloc iff its required size differs from mSize and
\* then frees the old buffer once (when there is one) and zeroes the new
\* tail; a cycle following a returned cycle with the same pixel count does
\* not reallocate, one with a different pixel count reallocates once.
ReallocIffSizeChanges ==
  [][Entering =>
       LET need == pxSize' * 24 + 10
           differs == need # mSize
       IN
         /\ nMalloc' = IF differs THEN 1 ELSE 0
         /\ nFree' = IF differs /\ led_data # NULL THEN 1 ELSE 0
         /\ ~differs => /\ led_data' = led_data
                        /\ mSize' = mSize
                        /\ heap' = heap
                        /\ mem' = mem
         /\ (differs /\ led_data' # NULL) =>
               /\ mSize' = need
               /\ heap'[led_data'] # 0
               /\ (led_data # NULL /\ led_data # led_data') => heap'[led_data] = 0
               /\ TailIsZero(mem', need)
         /\ busLog # <<>> => (differs <=> pxSize' # pxSize)
    ]_vars

ReallocIffSizeChangesWitness ==
  /\ pc = "encode"
  /\ nMalloc = 1
  /\ nFree = 1
  /\ ~allocFailed
  /\ led_data # NULL
  /\ TailIsZero(mem, mSize)

\* C5: when malloc fails during a resize, the old buffer stays allocated and
\* owned and mSize keeps its value.
OldBufferKeptOnAllocFailure ==
  [][(Entering /\ ~ub /\ led_data # NULL /\ allocFailed') =>
        /\ led_data' = led_data
        /\ heap'[led_data] = heap[led_data]
        /\ mSize' = mSize
    ]_vars

\* C6: a failed allocation aborts the cycle: no store through the buffer
\* pointer and no bus call follow it, and no cycle runs on a null buffer.
AllocFailureAbortsCycle ==
  /\ allocFailed => (pc = "idle" /\ ~ub /\ cur = 0 /\ busLog = <<>>)
  /\ Running => led_data # NULL

\* C7: the bus calls of a cycle are beginTransaction(6400000, MSBFIRST,
\* mode 0), writeBytes, endTransaction, once each and in this order; no
\* transaction is open when showPixels is entered or has returned, and none
\* is begun while one is open.
OneTransactionPerCycle ==
  /\ pc \in {"idle", "destroyed"} =>
        /\ ~txOpen
        /\ \/ busLog = <<>>
           \/ /\ BusOps = <<"beginTransaction", "writeBytes", "endTransaction">>
              /\ busLog[1].arg = [clock |-> 6400000, bitOrder |-> "MSBFIRST", mode |-> 0]
  /\ pc = "encode" => (~txOpen /\ busLog = <<>>)
  /\ pc = "begun" => (txOpen /\ BusOps = <<"beginTransaction">>)
  /\ pc = "written" => (txOpen /\ BusOps = <<"beginTransaction", "writeBytes">>)

OneTransactionPerCycleWitness ==
  /\ Returned
  /\ ~ub
  /\ ~txOpen
  /\ hspi # NULL
  /\ Len(busLog) = 3
  /\ pxSize = 2

\* C8: when the transaction is begun the source is exhausted and all n*24
\* symbols are in the buffer; from beginTransaction until showPixels returns
\* neither the buffer nor the pixel source changes.
EncodeBeforeTransmit ==
  [][/\ pc' \in {"begun", "written"} =>
          /\ pxRemaining' = 0
          /\ Len(loaded') = pxSize'
          /\ cur' = pxSize' * 24
          /\ led_data' # NULL =>
                \A i \in 0..(pxSize' * 24 - 1) : mem'[i] \in {248, 128}
     /\ pc \in {"begun", "written"} =>
          /\ mem' = mem
          /\ led_data' = led_data
          /\ mSize' = mSize
          /\ cur' = cur
          /\ loaded' = loaded
          /\ pxRemaining' = pxRemaining
    ]_vars

EncodeBeforeTransmitWitness ==
  /\ pc = "written"
  /\ ~ub
  /\ led_data # NULL
  /\ pxSize = 2
  /\ Len(loaded) = 2

\* C9: while the controller exists, the live heap blocks are exactly the one
\* led_data points to (none when it is null), and free has never been called
\* on a block that is not live.
SingleOwnedBuffer ==
  pc # "destroyed" =>
     /\ ~heapError
     /\ Live = (IF led_data = NULL THEN {} ELSE {led_data})
     /\ led_data # NULL => heap[led_data] >= mSize

SingleOwnedBufferWitness ==
  /\ pc = "encode"
  /\ nFree = 1
  /\ nMalloc = 1
  /\ pxSize = 0
  /\ Live = {led_data}

\* C10: no buffer is allocated before the first showPixels, and none remains
\* allocated once the controller has been destroyed.
BufferReleasedAtTeardown ==
  /\ (pc = "idle" /\ busLog = <<>> /\ ~allocFailed) => Live = {}
  /\ (pc = "destroyed" /\ ~ub) => Live = {}

\* pixels the source of the cycle yields in all: those consumed and those left
Yielded == Len(loaded) + pxRemaining
Transmitting == pc \in {"begun", "written"}
DecodeSymbol(sym) == IF sym = 248 THEN 1 ELSE IF sym = 128 THEN 0 ELSE -1
\* the byte the 8 symbols at m[base..base+7] stand for, -1 if one is no symbol
DecodeByteAt(m, base) ==
  IF \E k \in 0..7 : DecodeSymbol(m[base + k]) = -1 THEN -1
  ELSE   DecodeSymbol(m[base]) * 128 + DecodeSymbol(m[base + 1]) * 64
       + DecodeSymbol(m[base + 2]) * 32 + DecodeSymbol(m[base + 3]) * 16
       + DecodeSymbol(m[base + 4]) * 8 + DecodeSymbol(m[base + 5]) * 4
       + DecodeSymbol(m[base + 6]) * 2 + DecodeSymbol(m[base + 7])

\* C11: in a cycle that does not reallocate and whose source yields exactly
\* size() pixels, no step changes the last resetLength bytes of the buffer,
\* and every slot the encode loop stores into lies below n*24.
TailUntouchedWithoutRealloc ==
  [][(/\ pc' \in {"encode", "begun", "written", "idle"}
      /\ nMalloc' = 0
      /\ led_data' # NULL
      /\ Len(loaded') + pxRemaining' = pxSize') =>
        /\ led_data' = led_data
        /\ \A i \in (mSize' - 10)..(mSize' - 1) : mem'[i] = mem[i]
        /\ \A i \in stored' : i < pxSize' * 24
    ]_vars

TailUntouchedWithoutReallocWitness ==
  /\ pc = "begun"
  /\ nMalloc = 0
  /\ ~ub
  /\ led_data # NULL
  /\ pxSize = 2
  /\ Len(loaded) = 2
  /\ stored = 0..47
  /\ TailIsZero(mem, mSize)

\* C12: when the source yields a number of pixels other than its size(), the
\* cycle is aborted: no slot at or beyond n*24 is stored into and nothing is
\* handed to the bus.
StreamMismatchAborts ==
  (Yielded # pxSize /\ ~ub /\ pc # "destroyed") =>
     /\ \A i \in stored : i < pxSize * 24
     /\ busLog = <<>>

\* C13: a cycle with 0 pixels leaves a buffer of length resetLength, all
\* zero, and has transmitted it: begin, a write of these resetLength bytes,
\* end.
ZeroPixelCycleTransmitsReset ==
  (Returned /\ pxSize = 0 /\ ~ub /\ led_data # NULL) =>
     /\ mSize = RESET_LENGTH
     /\ \A i \in 0..(RESET_LENGTH - 1) : mem[i] = 0
     /\ BusOps = <<"beginTransaction", "writeBytes", "endTransaction">>
     /\ busLog[2].arg = RESET_LENGTH

\* C14: once the encode phase is over, decoding the first n*24 buffer bytes
\* (0xF8 -> 1, 0x80 -> 0, 8 symbols per byte, most significant first) gives
\* the scaled bytes the source returned, pixel by pixel, channels 0,1,2.
DecodeRoundTrip ==
  ((Transmitting \/ Returned) /\ led_data # NULL) =>
     /\ Len(loaded) = pxSize
     /\ \A p \in 1..pxSize : \A c \in 0..2 :
          DecodeByteAt(mem, (p - 1) * 24 + c * 8) = loaded[p][c + 1]

DecodeRoundTripWitness ==
  /\ pc = "written"
  /\ led_data # NULL
  /\ ~ub
  /\ loaded = << <<22, 233, 64>>, <<255, 0, 129>> >>
  /\ DecodeByteAt(mem, 0) = 22
  /\ DecodeByteAt(mem, 40) = 129

\* C15: getMaxRefreshRate evaluates to 400 in every state, a call returns
\* 400, and the call changes nothing but the value returned.
RefreshRateAlways400 ==
  [][/\ getMaxRefreshRate' = 400
     /\ rate' # rate =>
          /\ rate' = 400
          /\ UNCHANGED <<pc, hspi, spiObjects, led_data, mSize, heap,
                         heapError, mem, txOpen, ub>>
          /\ UNCHANGED cycleVars
    ]_vars

RefreshRateAlways400Witness ==
  /\ rate = 400
  /\ Returned
  /\ hspi # NULL
  /\ led_data # NULL
  /\ pxSize = 2

\* C16: the calls on the pixel source are, for each pixel consumed, has,
\* loadAndScale0, loadAndScale1, loadAndScale2, advanceData, stepDithering,
\* followed by the one has that ends the loop; each pixel fills the next 24
\* slots, and the loop ends exactly when the source has nothing left.
PixelSourceCallOrder ==
  pc \in {"idle", "encode", "begun", "written"} =>
    LET k == Len(loaded)
        order == <<"has", "loadAndScale0", "loadAndScale1", "loadAndScale2",
                   "advanceData", "stepDithering">>
        ended == Transmitting \/ Returned
    IN
      /\ Len(pxCalls) = 6 * k + (IF ended THEN 1 ELSE 0)
      /\ \A i \in 1..(6 * k) : pxCalls[i] = order[((i - 1) % 6) + 1]
      /\ ended => (pxCalls[6 * k + 1] = "has" /\ pxRemaining = 0)
      /\ cur = 24 * k
      /\ led_data # NULL => stored = 0..(24 * k - 1)

PixelSourceCallOrderWitness ==
  /\ pc = "encode"
  /\ led_data # NULL
  /\ Len(loaded) = 1
  /\ pxRemaining = 1
  /\ Len(pxCalls) = 6
  /\ stored = 0..23

\* C17: every call of init makes a new bus object, stores it in hspi and
\* releases none of the earlier ones, so the objects made number the calls
\* and only the newest is referenced; init leaves the buffer and mSize alone.
InitNotIdempotent ==
  [][/\ spiObjects' # spiObjects =>
          /\ hspi' \notin (spiObjects \cup {NULL})
          /\ spiObjects' = spiObjects \cup {hspi'}
          /\ Cardinality(spiObjects') = Cardinality(spiObjects) + 1
          /\ UNCHANGED <<led_data, mSize, heap, mem>>
     /\ pc' # "destroyed" => (hspi' = NULL <=> spiObjects' = {})
    ]_vars

InitNotIdempotentWitness ==
  /\ pc = "idle"
  /\ Cardinality(spiObjects) = 2
  /\ hspi = 2
  /\ led_data # NULL
  /\ mSize = 34

\* C18: the number of bytes requested from malloc in a resize equals the
\* recorded size mSize = n*24 + resetLength.
MallocRequestEqualsSize ==
  (nMalloc = 1 /\ pc # "destroyed") => mallocReq = mSize

\* C19: when writeBytes is about to be called, every buffer byte below n*24
\* is 0xF8 or 0x80 and was stored by the encode loop of this cycle.
EncodedRegionFresh ==
  (pc = "begun" /\ led_data # NULL) =>
     \A i \in 0..(pxSize * 24 - 1) : mem[i] \in {248, 128} /\ i \in stored

EncodedRegionFreshWitness ==
  /\ pc = "begun"
  /\ led_data # NULL
  /\ ~ub
  /\ nMalloc = 0
  /\ pxSize = 1
  /\ stored = 0..23
  /\ mem[23] \in {248, 128}

====
